---------------------------- MODULE Spec2Model ----------------------------
(***************************************************************************)
(* NonameEnv (apps/core/headless/python/noname_env.py): a gym environment  *)
(* that drives a worker process over stdin/stdout with line-delimited JSON.*)
(*                                                                         *)
(* The model has three kinds of processes:                                 *)
(*   - the caller thread, which runs reset/step/get_snapshot/close and     *)
(*     blocks in _read_json on the stdout queue;                           *)
(*   - the two daemon threads started per worker by _start                 *)
(*     (_drain_stdout, _drain_stderr);                                     *)
(*   - the worker processes themselves (the environment): they answer each *)
(*     command line with one line, may write diagnostics, and may exit.    *)
(***************************************************************************)
EXTENDS Integers, Sequences, FiniteSets, TLC

(***************************************************************************)
(* Program constants (noname_env.py lines 22-26, 58).                      *)
(***************************************************************************)
PMAX == 8
HMAX == 20
BMAX == 30
ACTION_DIM == HMAX + PMAX + BMAX + 2
OBS_DIM == PMAX * 5 + HMAX * 3 + 2
STDERR_TAIL_MAXLEN == 120
DefaultSeed == 0

(***************************************************************************)
(* Bounds of the model.                                                    *)
(***************************************************************************)
\* workers one bridge may spawn in a run
MaxWorkers == 2
\* caller operations (reset, step, get_snapshot, close) in a run
MaxOps == 3
\* diagnostic lines all workers together write in a run
MaxDiag == 1
\* how far beyond the declared length a generated obs / mask sequence goes
NormSlack == 2

VARIABLES
    \* ---- fields of NonameEnv --------------------------------------------
    proc,            \* _proc: 0 is None, else the index of the worker in procs
    stdout_stop,     \* _stdout_stop (threading.Event)
    stderr_stop,     \* _stderr_stop (threading.Event)
    stdout_thread,   \* _stdout_thread: 0 is None, else the worker it was started for
    stderr_thread,   \* _stderr_thread
    stdout_queue,    \* _stdout_queue: lines handed from _drain_stdout to _read_json
    stderr_tail,     \* _stderr_tail: deque(maxlen=120)
    last_mask,       \* _last_mask
    episode_seed,    \* _episode_seed
    base_seed,       \* base_seed
    \* ---- the environment ------------------------------------------------
    launcher,        \* what _build_cmd finds on this machine
    procs,           \* every worker process spawned so far, in spawn order
    readers,         \* the daemon threads started for each worker
    \* ---- the caller thread ----------------------------------------------
    pc,              \* where the caller is inside the running operation
    ret,             \* what the last finished operation returned or raised
    rs,              \* bookkeeping of the running/last reset call: its seed, the
                     \* _start calls and responses it has seen, whether it has
                     \* returned normally (started), and whether a reset before
                     \* it had (prior)
    nops,            \* operations started so far
    ndiag            \* diagnostic lines written so far

vars == <<proc, stdout_stop, stderr_stop, stdout_thread, stderr_thread,
          stdout_queue, stderr_tail, last_mask, episode_seed, base_seed,
          launcher, procs, readers, pc, ret, rs, nops, ndiag>>

bridgeVars == <<proc, stdout_stop, stderr_stop, stdout_thread, stderr_thread,
                stdout_queue, stderr_tail, last_mask, episode_seed, base_seed>>

(***************************************************************************)
(* JSON values as the bridge sees them.  A field of a message is           *)
(* [has, val]: has = FALSE when the key is absent (dict.get's default      *)
(* applies).  A mask element is [t, v]: a JSON boolean (t = "bool", v in   *)
(* 0..1) or a JSON number (t = "num").                                     *)
(***************************************************************************)
Absent == [has |-> FALSE, val |-> <<>>]
Field(v) == [has |-> TRUE, val |-> v]
JTrue == [t |-> "bool", v |-> 1]
JFalse == [t |-> "bool", v |-> 0]
JNum(n) == [t |-> "num", v |-> n]

\* msg.get(key, default)
MsgGet(f, default) == IF f.has THEN f.val ELSE default

Min(a, b) == IF a < b THEN a ELSE b

(***************************************************************************)
(* np.asarray(x, dtype=np.float32) on one JSON integer x: the value the    *)
(* 32-bit float holds (24 significant bits, round to nearest, ties to      *)
(* even).  The integers of the model are below 2^31, so the int -> double  *)
(* step of the conversion is exact and only double -> float32 rounds.      *)
(***************************************************************************)
RECURSIVE Pow2(_)
Pow2(e) == IF e = 0 THEN 1 ELSE 2 * Pow2(e - 1)

F32_MANT_BITS == 24

Abs(n) == IF n < 0 THEN 0 - n ELSE n

\* the e with 2^e <= a < 2^(e+1), for a >= 1
RECURSIVE Log2Floor(_)
Log2Floor(a) == IF a < 2 THEN 0 ELSE 1 + Log2Floor(a \div 2)

ToFloat32(n) ==
    LET a == Abs(n)
        sgn == IF n < 0 THEN 0 - 1 ELSE 1
    IN  IF a < Pow2(F32_MANT_BITS) THEN n
        ELSE LET ulp == Pow2(Log2Floor(a) - (F32_MANT_BITS - 1))
                 q == a \div ulp
                 r == a % ulp
                 up == \/ 2 * r > ulp
                       \/ 2 * r = ulp /\ q % 2 = 1
             IN  sgn * (IF up THEN q + 1 ELSE q) * ulp

\* np.asarray(seq, dtype=np.float32) on a flat sequence of JSON integers
AsFloat32Array(raw) == [i \in 1..Len(raw) |-> ToFloat32(raw[i])]

\* a coercion that takes only the JSON literal true for true
TruthyOnlyTrue(e) == e.t = "bool" /\ e.v = 1

\* bool(x) of a JSON boolean or number, as np.asarray(.., dtype=np.bool_) applies it
Truthy(e) == e.v # 0

\* np.asarray(seq, dtype=np.bool_) on a flat sequence of JSON booleans / numbers
AsBoolArray(raw) == [i \in 1..Len(raw) |-> Truthy(raw[i])]

\* np.zeros((n,), ...)
Zeros(n, zero) == [i \in 1..n |-> zero]

(***************************************************************************)
(* _decode_step, lines 163-169 and 170-176: the shape repair.  arr is the  *)
(* already converted array, dim the declared length, zero the fill value.  *)
(***************************************************************************)
\* a repair that copies one element too few
FixShapeShort(arr, dim, zero) ==
    IF Len(arr) = dim THEN arr
    ELSE LET n == Min(dim, Len(arr)) - 1
         IN  IF n > 0
             THEN [i \in 1..dim |-> IF i <= n THEN arr[i] ELSE zero]
             ELSE Zeros(dim, zero)

FixShape(arr, dim, zero) ==
    IF Len(arr) = dim THEN arr
    ELSE LET n == Min(dim, Len(arr))
         IN  IF n > 0
             THEN [i \in 1..dim |-> IF i <= n THEN arr[i] ELSE zero]
             ELSE Zeros(dim, zero)

DecodeObs(msg) == FixShape(AsFloat32Array(MsgGet(msg.obs, <<>>)), OBS_DIM, 0)

DecodeMask(msg) == FixShape(AsBoolArray(MsgGet(msg.mask, <<>>)), ACTION_DIM, FALSE)

\* float(msg.get("reward", 0.0)): a double, exact on the model's integers
DecodeReward(msg) == MsgGet(msg.reward, 0)

\* bool(msg.get("done", False))
DecodeDone(msg) == Truthy(MsgGet(msg.done, JFalse))

\* _decode_step: what it returns and what it stores in _last_mask
DecodeStep(msg) ==
    [obs |-> DecodeObs(msg), mask |-> DecodeMask(msg),
     reward |-> DecodeReward(msg), done |-> DecodeDone(msg)]

(***************************************************************************)
(* Lines a worker may write to its stdout.  json = FALSE is a line that    *)
(* json.loads rejects.                                                     *)
(***************************************************************************)
NoSnapshot == [has |-> FALSE, val |-> "none"]
NoReward == [has |-> FALSE, val |-> 0]
NoDone == [has |-> FALSE, val |-> JFalse]

Msg(obs, mask, reward, done, snapshot) ==
    [json |-> TRUE, obs |-> obs, mask |-> mask, reward |-> reward,
     done |-> done, snapshot |-> snapshot]

\* {"obs":[1,2,3],"mask":[true,false],"reward":0,"done":false,"snapshot":{}}
BodyRunning == Msg(Field(<<1, 2, 3>>), Field(<<JTrue, JFalse>>), Field(0),
                   Field(JFalse), Field("dict"))
\* {"mask":[0,1,1],"reward":1,"done":true,"snapshot":"n/a"}
BodyDone == Msg(Absent, Field(<<JNum(0), JNum(1), JNum(1)>>), Field(1), Field(JTrue),
                Field("str"))
\* not JSON at all
BodyGarbage == [json |-> FALSE, obs |-> Absent, mask |-> Absent, reward |-> NoReward,
                done |-> NoDone, snapshot |-> NoSnapshot]

Bodies == {BodyRunning, BodyDone, BodyGarbage}

(***************************************************************************)
(* Inputs of the caller and of the machine.                                *)
(***************************************************************************)
\* reset(seed=7); [has |-> FALSE, ..] is reset(seed=None)
SeedArgs == {[has |-> TRUE, val |-> 7]}
\* step(action): below the range, its first slot, above the range
ActionArgs == {0 - 1, 0, ACTION_DIM}
\* what shutil.which and Path.exists report to _build_cmd
Launchers == {[pnpm |-> FALSE, loader |-> TRUE, node |-> TRUE],
              [pnpm |-> FALSE, loader |-> TRUE, node |-> FALSE],
              [pnpm |-> FALSE, loader |-> FALSE, node |-> TRUE]}

(***************************************************************************)
(* Records of the model.                                                   *)
(***************************************************************************)
NoTag == [w |-> 0, idx |-> 0]

\* The outcome of an operation: err = "ok" is a normal return, "running" an
\* operation that has not returned yet.  arg is the action of a step, after
\* the operation called before this one.  msg is the line the operation took
\* from the queue last, src the worker and command that line answers, sent the
\* worker and command the bridge had written last when it took the line.
\* mask is the array handed to the caller: shared tells whether it is the very
\* array _last_mask refers to, written whether the caller has written to it.
\* a mask handed out without a copy
HandedMaskNoCopy(m) == [val |-> m, shared |-> TRUE]

\* self._last_mask.copy(), lines 188, 194, 207, 213: a new array, equal to m
HandedMask(m) == [val |-> m, shared |-> FALSE]

Ret(op, err) ==
    [op |-> op, err |-> err, arg |-> 0, after |-> "none",
     obs |-> <<>>, mask |-> <<>>, reward |-> 0,
     terminated |-> FALSE, truncated |-> FALSE, tail |-> <<>>,
     msg |-> BodyGarbage, src |-> NoTag, sent |-> NoTag,
     shared |-> FALSE, written |-> FALSE]

NewWorker(argv) ==
    [alive |-> TRUE, argv |-> argv, log |-> <<>>, nread |-> 0, taken |-> 0,
     stdout |-> <<>>, stderr |-> <<>>]

\* the two threads of worker w, each in its first readline()
NewReaders(w) ==
    [out |-> [pc |-> "read", tgt |-> w], err |-> [pc |-> "read", tgt |-> w]]

\* a hello that always carries the seed the reset was called with
HelloRequestedSeed(seed) ==
    [cmd |-> "hello", seed |-> rs.seed, mode |-> "single", single_mode |-> "normal",
     seat |-> 0]

Hello(seed) ==
    [cmd |-> "hello", seed |-> seed, mode |-> "single", single_mode |-> "normal",
     seat |-> 0]
StepCmd(a) == [cmd |-> "step", action |-> a]
SnapshotCmd == [cmd |-> "snapshot"]

Workers == 1..Len(procs)

(***************************************************************************)
(* _build_cmd, lines 65-94: the argv it resolves, or "error".              *)
(***************************************************************************)
\* a resolution that takes the loader without looking for node
BuildCmdNoNodeTest(l) ==
    IF l.pnpm THEN "pnpm"
    ELSE IF l.loader THEN "node"
    ELSE "error"

BuildCmd(l) ==
    IF l.pnpm THEN "pnpm"
    ELSE IF l.loader
         THEN (IF l.node THEN "node" ELSE "error")
         ELSE "error"

(***************************************************************************)
(* close, lines 226-232: poll() and kill() of the held process.            *)
(***************************************************************************)
\* a close that leaves the process running
KillProcNoop(ps, p) == ps

KillProc(ps, p) == IF p # 0 THEN [ps EXCEPT ![p].alive = FALSE] ELSE ps

\* a close that forgets the stdout reader's stop event
CloseKeepsStdoutReader ==
    /\ proc' = 0
    /\ stderr_stop' = TRUE
    /\ stdout_stop' = stdout_stop
    /\ stderr_thread' = 0
    /\ stdout_thread' = 0

\* close, lines 232-237, on the bridge's own fields
Close ==
    /\ proc' = 0
    /\ stderr_stop' = TRUE
    /\ stdout_stop' = TRUE
    /\ stderr_thread' = 0
    /\ stdout_thread' = 0

(***************************************************************************)
(* _write_json, lines 142-146: "NotRunning" when _proc is None, else the   *)
(* write; a write into the pipe of a process that has exited raises        *)
(* BrokenPipeError ("WriteFailed") and delivers nothing.                   *)
(***************************************************************************)
\* a write that succeeds into the pipe of a process that has exited
WriteErrIgnoresExit(ps, p) == IF p = 0 THEN "NotRunning" ELSE "ok"

WriteErr(ps, p) ==
    IF p = 0 THEN "NotRunning"
    ELSE IF ~ps[p].alive THEN "WriteFailed"
    ELSE "ok"

WriteJson(ps, p, cmd) ==
    IF WriteErr(ps, p) = "ok" THEN [ps EXCEPT ![p].log = Append(@, cmd)] ELSE ps

(***************************************************************************)
(* step, lines 198-202: the checks before any I/O.                         *)
(***************************************************************************)
\* the range check with its upper limit off by one
StepCheckOffByOne(p, a) ==
    IF p = 0 THEN "NotRunning"
    ELSE IF a < 0 \/ a > ACTION_DIM THEN "InvalidAction"
    ELSE "ok"

StepCheck(p, a) ==
    IF p = 0 THEN "NotRunning"
    ELSE IF a < 0 \/ a >= ACTION_DIM THEN "InvalidAction"
    ELSE "ok"

\* a step that keeps the worker after a terminal response
StepClosesNever(done) == FALSE

\* step, line 208: whether the worker is closed after this response
StepCloses(done) == done

\* get_snapshot, lines 216-217
SnapshotCheck(p) == IF p = 0 THEN "NotRunning" ELSE "ok"

\* get_snapshot, lines 220-222
SnapshotErr(msg) ==
    IF msg.snapshot.has /\ msg.snapshot.val = "dict" THEN "ok"
    ELSE "SnapshotUnavailable"

\* a reset that retries after every terminal response
NeedsRetryAlways(done, attempt) == done

\* reset, line 189: the retry is taken after the first response only
NeedsRetry(done, attempt) == done /\ attempt = 1

\* deque(maxlen=120).append
TailAppend(tail, line) ==
    IF Len(tail) >= STDERR_TAIL_MAXLEN THEN Append(Tail(tail), line)
    ELSE Append(tail, line)

\* the tag of the command written last to the held worker
LastSent(ps, p) == IF p = 0 THEN NoTag ELSE [w |-> p, idx |-> Len(ps[p].log)]

\* _stdout_queue.get() took a line of worker line.w
Took(ps, line) == [ps EXCEPT ![line.w].taken = @ + 1]

\* an operation begins
Begin(op, a) == [Ret(op, "running") EXCEPT !.arg = a, !.after = ret.op]

\* _read_json returned line to the running operation
Got(line) ==
    [ret EXCEPT !.msg = line.body, !.src = [w |-> line.w, idx |-> line.idx],
                !.sent = LastSent(procs, proc)]

\* _read_json, lines 156-160: json.loads failed
ProtocolError(line) == [Got(line) EXCEPT !.err = "ProtocolError", !.tail = stderr_tail]

Init ==
    /\ proc = 0
    /\ stdout_stop = FALSE
    /\ stderr_stop = FALSE
    /\ stdout_thread = 0
    /\ stderr_thread = 0
    /\ stdout_queue = <<>>
    /\ stderr_tail = <<>>
    /\ last_mask = Zeros(ACTION_DIM, FALSE)
    /\ base_seed = DefaultSeed
    /\ episode_seed = base_seed
    /\ launcher \in Launchers
    /\ procs = <<>>
    /\ readers = <<>>
    /\ pc = "idle"
    /\ ret = Ret("none", "ok")
    /\ rs = [attempt |-> 0, spawns |-> 0, first |-> "none", seed |-> 0,
             started |-> FALSE, prior |-> FALSE]
    /\ nops = 0
    /\ ndiag = 0

envVars == <<launcher, base_seed>>

(***************************************************************************)
(* reset, lines 182-195.                                                   *)
(***************************************************************************)
\* lines 184-185: close(), then the episode seed
CallReset(seed) ==
    /\ pc = "idle"
    /\ nops < MaxOps
    /\ Len(procs) < MaxWorkers
    /\ nops' = nops + 1
    /\ Close
    /\ procs' = KillProc(procs, proc)
    /\ episode_seed' = IF seed.has THEN seed.val ELSE base_seed
    /\ rs' = [attempt |-> 1, spawns |-> 0, first |-> "none",
              seed |-> episode_seed', started |-> FALSE,
              prior |-> rs.prior \/ rs.started]
    /\ pc' = "reset_spawn"
    /\ ret' = Begin("reset", 0)
    /\ UNCHANGED <<stdout_queue, stderr_tail, last_mask, readers, ndiag, envVars>>

\* _start, lines 113-131: _build_cmd, Popen, the events cleared, the threads started
ResetSpawn ==
    /\ pc = "reset_spawn"
    /\ Len(procs) < MaxWorkers
    /\ IF BuildCmd(launcher) = "error"
       THEN /\ pc' = "idle"
            /\ ret' = [ret EXCEPT !.err = "LaunchUnavailable"]
            /\ UNCHANGED <<proc, stdout_stop, stderr_stop, stdout_thread,
                           stderr_thread, stderr_tail, procs, readers, rs>>
       ELSE /\ procs' = Append(procs, NewWorker(BuildCmd(launcher)))
            /\ proc' = Len(procs) + 1
            /\ stderr_stop' = FALSE
            /\ stdout_stop' = FALSE
            /\ stderr_tail' = <<>>
            /\ readers' = Append(readers, NewReaders(Len(procs) + 1))
            /\ stderr_thread' = Len(procs) + 1
            /\ stdout_thread' = Len(procs) + 1
            /\ rs' = [rs EXCEPT !.spawns = @ + 1]
            /\ pc' = "reset_hello"
            /\ UNCHANGED ret
    /\ UNCHANGED <<stdout_queue, last_mask, episode_seed, nops, ndiag, envVars>>

\* _start, lines 133-140: the hello command
ResetHello ==
    /\ pc = "reset_hello"
    /\ procs' = WriteJson(procs, proc, Hello(episode_seed))
    /\ IF WriteErr(procs, proc) = "ok"
       THEN pc' = "reset_read" /\ UNCHANGED ret
       ELSE pc' = "idle" /\ ret' = [ret EXCEPT !.err = WriteErr(procs, proc)]
    /\ UNCHANGED <<proc, stdout_stop, stderr_stop, stdout_thread, stderr_thread,
                   stdout_queue, stderr_tail, last_mask, episode_seed, readers,
                   rs, nops, ndiag, envVars>>

\* lines 187-195: the response decoded; on done (first response only) the
\* seed is advanced, the worker closed and _start runs again
ResetRecv ==
    /\ pc = "reset_read"
    /\ stdout_queue # <<>>
    /\ LET line == Head(stdout_queue)
           d == DecodeStep(line.body)
       IN  /\ stdout_queue' = Tail(stdout_queue)
           /\ IF ~line.body.json
              THEN /\ pc' = "idle"
                   /\ ret' = ProtocolError(line)
                   /\ procs' = Took(procs, line)
                   /\ UNCHANGED <<proc, stdout_stop, stderr_stop, stdout_thread,
                                  stderr_thread, last_mask, episode_seed, rs>>
              ELSE IF NeedsRetry(d.done, rs.attempt)
              THEN /\ last_mask' = d.mask
                   /\ episode_seed' = episode_seed + 1
                   /\ Close
                   /\ procs' = KillProc(Took(procs, line), proc)
                   /\ rs' = [rs EXCEPT !.attempt = 2, !.first = "done"]
                   /\ pc' = "reset_spawn"
                   /\ ret' = Got(line)
              ELSE /\ last_mask' = d.mask
                   /\ ret' = [Got(line) EXCEPT !.err = "ok", !.obs = d.obs,
                                               !.mask = HandedMask(d.mask).val,
                                               !.shared = HandedMask(d.mask).shared]
                   /\ rs' = [rs EXCEPT !.started = TRUE,
                                        !.first = IF rs.attempt = 1 THEN "live" ELSE @]
                   /\ procs' = Took(procs, line)
                   /\ pc' = "idle"
                   /\ UNCHANGED <<proc, stdout_stop, stderr_stop, stdout_thread,
                                  stderr_thread, episode_seed>>
    /\ UNCHANGED <<stderr_tail, readers, nops, ndiag, envVars>>

(***************************************************************************)
(* _read_json, lines 151-155: the queue stayed empty for timeout_s.        *)
(***************************************************************************)
\* a receive that closes the bridge when its deadline expires
RecvTimeoutCloses ==
    /\ pc \in {"reset_read", "step_read", "snapshot_read"}
    /\ stdout_queue = <<>>
    /\ pc' = "idle"
    /\ ret' = [ret EXCEPT !.err = "Timeout", !.tail = stderr_tail,
                          !.sent = LastSent(procs, proc)]
    /\ Close
    /\ procs' = KillProc(procs, proc)
    /\ UNCHANGED <<stdout_queue, stderr_tail, last_mask, episode_seed, readers, rs,
                   nops, ndiag, envVars>>

RecvTimeout ==
    /\ pc \in {"reset_read", "step_read", "snapshot_read"}
    /\ stdout_queue = <<>>
    /\ pc' = "idle"
    /\ ret' = [ret EXCEPT !.err = "Timeout", !.tail = stderr_tail,
                          !.sent = LastSent(procs, proc)]
    /\ UNCHANGED <<bridgeVars, procs, readers, rs, nops, ndiag, envVars>>

(***************************************************************************)
(* step, lines 197-210.                                                    *)
(***************************************************************************)
\* lines 198-203: the checks, then the step command written
CallStep(a) ==
    /\ pc = "idle"
    /\ nops < MaxOps
    /\ nops' = nops + 1
    /\ LET chk == StepCheck(proc, a)
           err == IF chk = "ok" THEN WriteErr(procs, proc) ELSE chk
       IN  /\ procs' = IF chk = "ok" THEN WriteJson(procs, proc, StepCmd(a)) ELSE procs
           /\ IF err = "ok"
              THEN pc' = "step_read" /\ ret' = Begin("step", a)
              ELSE pc' = "idle" /\ ret' = [Begin("step", a) EXCEPT !.err = err]
    /\ UNCHANGED <<bridgeVars, readers, rs, ndiag, envVars>>

\* lines 204-210: the response decoded; on done the worker is closed
StepRecv ==
    /\ pc = "step_read"
    /\ stdout_queue # <<>>
    /\ LET line == Head(stdout_queue)
           d == DecodeStep(line.body)
       IN  /\ stdout_queue' = Tail(stdout_queue)
           /\ pc' = "idle"
           /\ IF ~line.body.json
              THEN /\ ret' = ProtocolError(line)
                   /\ procs' = Took(procs, line)
                   /\ UNCHANGED <<proc, stdout_stop, stderr_stop, stdout_thread,
                                  stderr_thread, last_mask>>
              ELSE /\ last_mask' = d.mask
                   /\ ret' = [Got(line) EXCEPT !.err = "ok", !.obs = d.obs,
                                               !.mask = HandedMask(d.mask).val,
                                               !.shared = HandedMask(d.mask).shared,
                                               !.reward = d.reward,
                                               !.terminated = d.done,
                                               !.truncated = FALSE]
                   /\ IF StepCloses(d.done)
                      THEN Close /\ procs' = KillProc(Took(procs, line), proc)
                      ELSE /\ procs' = Took(procs, line)
                           /\ UNCHANGED <<proc, stdout_stop, stderr_stop,
                                          stdout_thread, stderr_thread>>
    /\ UNCHANGED <<stderr_tail, episode_seed, readers, rs, nops, ndiag, envVars>>

(***************************************************************************)
(* get_snapshot, lines 215-223.                                            *)
(***************************************************************************)
CallSnapshot ==
    /\ pc = "idle"
    /\ nops < MaxOps
    /\ nops' = nops + 1
    /\ LET chk == SnapshotCheck(proc)
           err == IF chk = "ok" THEN WriteErr(procs, proc) ELSE chk
       IN  /\ procs' = IF chk = "ok" THEN WriteJson(procs, proc, SnapshotCmd) ELSE procs
           /\ IF err = "ok"
              THEN pc' = "snapshot_read" /\ ret' = Begin("snapshot", 0)
              ELSE pc' = "idle" /\ ret' = [Begin("snapshot", 0) EXCEPT !.err = err]
    /\ UNCHANGED <<bridgeVars, readers, rs, ndiag, envVars>>

\* a get_snapshot that runs its response through _decode_step
SnapshotRecvDecodes ==
    /\ pc = "snapshot_read"
    /\ stdout_queue # <<>>
    /\ LET line == Head(stdout_queue)
       IN  /\ stdout_queue' = Tail(stdout_queue)
           /\ procs' = Took(procs, line)
           /\ pc' = "idle"
           /\ last_mask' = IF line.body.json THEN DecodeMask(line.body) ELSE last_mask
           /\ ret' = IF ~line.body.json THEN ProtocolError(line)
                     ELSE [Got(line) EXCEPT !.err = SnapshotErr(line.body)]
    /\ UNCHANGED <<proc, stdout_stop, stderr_stop, stdout_thread, stderr_thread,
                   stderr_tail, episode_seed, readers, rs, nops, ndiag, envVars>>

SnapshotRecv ==
    /\ pc = "snapshot_read"
    /\ stdout_queue # <<>>
    /\ LET line == Head(stdout_queue)
       IN  /\ stdout_queue' = Tail(stdout_queue)
           /\ procs' = Took(procs, line)
           /\ pc' = "idle"
           /\ ret' = IF ~line.body.json THEN ProtocolError(line)
                     ELSE [Got(line) EXCEPT !.err = SnapshotErr(line.body)]
    /\ UNCHANGED <<proc, stdout_stop, stderr_stop, stdout_thread, stderr_thread,
                   stderr_tail, last_mask, episode_seed, readers, rs, nops, ndiag,
                   envVars>>

(***************************************************************************)
(* close, lines 225-237, called by the caller.                             *)
(***************************************************************************)
CallClose ==
    /\ pc = "idle"
    /\ nops < MaxOps
    /\ nops' = nops + 1
    /\ Close
    /\ procs' = KillProc(procs, proc)
    /\ ret' = [Begin("close", 0) EXCEPT !.err = "ok"]
    /\ pc' = "idle"
    /\ UNCHANGED <<stdout_queue, stderr_tail, last_mask, episode_seed, readers, rs,
                   ndiag, envVars>>

(***************************************************************************)
(* _drain_stdout (k = "out", lines 104-110) and _drain_stderr (k = "err",  *)
(* lines 96-102) of the threads started for worker w.  A thread is either  *)
(* blocked in readline() on the stream of worker tgt, or has left its loop.*)
(* One step of a thread is one turn of the loop: readline() returns, the   *)
(* line is handed over, the stop event is tested and self._proc is read    *)
(* anew for the next readline().                                           *)
(***************************************************************************)
StopSet(k) == IF k = "out" THEN stdout_stop ELSE stderr_stop

\* the loop condition and the evaluation of self._proc.stdout / .stderr:
\* with _proc None the thread dies of the AttributeError
ReaderTurn(k) ==
    IF StopSet(k) \/ proc = 0
    THEN [pc |-> "exit", tgt |-> 0]
    ELSE [pc |-> "read", tgt |-> proc]

\* readline() returned a line, handed to the queue
DrainStdout(w) ==
    /\ readers[w].out.pc = "read"
    /\ LET t == readers[w].out.tgt
       IN  /\ procs[t].stdout # <<>>
           /\ stdout_queue' = Append(stdout_queue, Head(procs[t].stdout))
           /\ procs' = [procs EXCEPT ![t].stdout = Tail(@)]
    /\ readers' = [readers EXCEPT ![w].out = ReaderTurn("out")]
    /\ UNCHANGED <<proc, stdout_stop, stderr_stop, stdout_thread, stderr_thread,
                   stderr_tail, last_mask, episode_seed, pc, ret, rs, nops, ndiag,
                   envVars>>

\* readline() returned a line, appended to the tail
DrainStderr(w) ==
    /\ readers[w].err.pc = "read"
    /\ LET t == readers[w].err.tgt
       IN  /\ procs[t].stderr # <<>>
           /\ stderr_tail' = TailAppend(stderr_tail, Head(procs[t].stderr))
           /\ procs' = [procs EXCEPT ![t].stderr = Tail(@)]
    /\ readers' = [readers EXCEPT ![w].err = ReaderTurn("err")]
    /\ UNCHANGED <<proc, stdout_stop, stderr_stop, stdout_thread, stderr_thread,
                   stdout_queue, last_mask, episode_seed, pc, ret, rs, nops, ndiag,
                   envVars>>

\* the stream a reader is blocked on, as a sequence of unread lines
Pipe(w, k) ==
    LET t == readers[w][k].tgt
    IN  IF k = "out" THEN procs[t].stdout ELSE procs[t].stderr

\* readline() returned "": the process is gone and its pipe is drained
ReaderEof(w, k) ==
    /\ readers[w][k].pc = "read"
    /\ ~procs[readers[w][k].tgt].alive
    /\ Pipe(w, k) = <<>>
    /\ readers' = [readers EXCEPT ![w][k] = [pc |-> "exit", tgt |-> 0]]
    /\ UNCHANGED <<bridgeVars, procs, pc, ret, rs, nops, ndiag, envVars>>

(***************************************************************************)
(* The worker process (headless/rl_server.ts, not among these sources): it *)
(* reads one command line at a time and answers it with one line.          *)
(***************************************************************************)
WorkerRespond(w, body) ==
    /\ procs[w].alive
    /\ procs[w].nread < Len(procs[w].log)
    /\ procs' = [procs EXCEPT
                    ![w].nread = @ + 1,
                    ![w].stdout = Append(@, [w |-> w, idx |-> procs[w].nread + 1,
                                             body |-> body])]
    /\ UNCHANGED <<bridgeVars, readers, pc, ret, rs, nops, ndiag, envVars>>

\* a line on the diagnostic stream
WorkerDiag(w) ==
    /\ procs[w].alive
    /\ ndiag < MaxDiag
    /\ ndiag' = ndiag + 1
    /\ procs' = [procs EXCEPT ![w].stderr = Append(@, [w |-> w, n |-> ndiag + 1])]
    /\ UNCHANGED <<bridgeVars, readers, pc, ret, rs, nops, envVars>>

\* the worker crashes or exits on its own
WorkerExit(w) ==
    /\ procs[w].alive
    /\ procs' = [procs EXCEPT ![w].alive = FALSE]
    /\ UNCHANGED <<bridgeVars, readers, pc, ret, rs, nops, ndiag, envVars>>

(***************************************************************************)
(* Spec: the caller, the stdout readers and the workers' stdout.  The      *)
(* diagnostic stream only feeds _stderr_tail, which no operation reads but *)
(* to build an error message, and a reader that has seen the end of its    *)
(* stream does nothing more; SpecDiag adds both.                           *)
(***************************************************************************)
Next ==
    \/ \E seed \in SeedArgs : CallReset(seed)
    \/ ResetSpawn
    \/ ResetHello
    \/ ResetRecv
    \/ RecvTimeout
    \/ \E a \in ActionArgs : CallStep(a)
    \/ StepRecv
    \/ CallSnapshot
    \/ SnapshotRecv
    \/ CallClose
    \/ \E w \in Workers : DrainStdout(w)
    \/ \E w \in Workers, body \in Bodies : WorkerRespond(w, body)
    \/ \E w \in Workers : WorkerExit(w)

Spec == Init /\ [][Next]_vars

NextDiag ==
    \/ Next
    \/ \E w \in Workers : DrainStderr(w)
    \/ \E w \in Workers, k \in {"out", "err"} : ReaderEof(w, k)
    \/ \E w \in Workers : WorkerDiag(w)

SpecDiag == Init /\ [][NextDiag]_vars

(***************************************************************************)
(* SpecLive: Spec with the end of stream seen by the readers, and with the *)
(* scheduling of the reader threads: a thread whose readline() can return  *)
(* (a line is buffered, or the process is gone and its pipe is drained)    *)
(* does return.  Nothing is assumed of the caller or of the workers.       *)
(***************************************************************************)
NextLive ==
    \/ Next
    \/ \E w \in Workers, k \in {"out", "err"} : ReaderEof(w, k)

ReadersRun ==
    \A w \in 1..MaxWorkers :
        /\ WF_vars(w \in Workers /\ DrainStdout(w))
        /\ WF_vars(w \in Workers /\ ReaderEof(w, "out"))
        /\ WF_vars(w \in Workers /\ ReaderEof(w, "err"))

SpecLive == Init /\ [][NextLive]_vars /\ ReadersRun

(***************************************************************************)
(* SpecLaunch: Spec on a machine where the launcher can go away (pnpm or  *)
(* node leaves the PATH, node_modules is removed), so that _build_cmd can  *)
(* fail in a reset that follows a successful one.  Only _build_cmd looks   *)
(* at the launcher, so the loss is taken where _start is about to call it. *)
(***************************************************************************)
LauncherLost ==
    /\ pc = "reset_spawn"
    /\ BuildCmd(launcher) # "error"
    /\ launcher' \in {l \in Launchers : BuildCmd(l) = "error"}
    /\ UNCHANGED <<bridgeVars, procs, readers, pc, ret, rs, nops, ndiag>>

NextLaunch ==
    \/ Next
    \/ LauncherLost

SpecLaunch == Init /\ [][NextLaunch]_vars

(***************************************************************************)
(* SpecMask: Spec with action_masks() and with a caller that writes to the *)
(* mask array it was handed by reset, step or action_masks.                *)
(***************************************************************************)
\* action_masks, lines 212-213
CallActionMasks ==
    /\ pc = "idle"
    /\ nops < MaxOps
    /\ nops' = nops + 1
    /\ pc' = "idle"
    /\ ret' = [Begin("action_masks", 0) EXCEPT
                  !.err = "ok",
                  !.mask = HandedMask(last_mask).val,
                  !.shared = HandedMask(last_mask).shared]
    /\ UNCHANGED <<bridgeVars, procs, readers, rs, ndiag, envVars>>

\* the caller flips the first element of the array it holds; _last_mask
\* changes with it when it is the same array
CallerWrites ==
    /\ pc = "idle"
    /\ ret.err = "ok"
    /\ ret.mask # <<>>
    /\ ~ret.written
    /\ ret' = [ret EXCEPT !.mask[1] = ~@, !.written = TRUE]
    /\ last_mask' = IF ret.shared THEN ret'.mask ELSE last_mask
    /\ UNCHANGED <<proc, stdout_stop, stderr_stop, stdout_thread, stderr_thread,
                   stdout_queue, stderr_tail, episode_seed, procs, readers, pc, rs,
                   nops, ndiag, envVars>>

NextMask ==
    \/ Next
    \/ CallActionMasks
    \/ CallerWrites

SpecMask == Init /\ [][NextMask]_vars

(***************************************************************************)
(* SpecNorm: _decode_step on generated messages.  It starts where reset    *)
(* (after hello) or step (after its command) waits in _read_json with the  *)
(* worker's answer already in the queue, and lets the operation take it.   *)
(* The answers carry obs / mask sequences of every length from 0 to the    *)
(* declared length plus NormSlack, and an absent field.                    *)
(***************************************************************************)
\* JSON integers: small ones, and two that no 32-bit float holds
ObsVals == <<0, 1, 0 - 3, 16777217, 16777219>>
MaskVals == <<JFalse, JTrue, JNum(0), JNum(2)>>

Pattern(vals, k, a, b) == [i \in 1..k |-> vals[((a * i + b) % Len(vals)) + 1]]

NormFields(vals, dim) ==
    {Absent} \cup {Field(Pattern(vals, k, a, b)) :
                      k \in 0..(dim + NormSlack), a \in 0..1, b \in 0..(Len(vals) - 1)}

NormBodies ==
    {Msg(o, BodyRunning.mask, Field(0), dn, NoSnapshot) :
        o \in NormFields(ObsVals, OBS_DIM), dn \in {Field(JFalse), Field(JTrue)}}
    \cup
    {Msg(BodyRunning.obs, m, Field(0), dn, NoSnapshot) :
        m \in NormFields(MaskVals, ACTION_DIM), dn \in {Field(JFalse), Field(JTrue)}}

InitNorm ==
    \E body \in NormBodies, op \in {"reset", "step"} :
        LET n == IF op = "reset" THEN 1 ELSE 2
        IN  /\ proc = 1
            /\ stdout_stop = FALSE
            /\ stderr_stop = FALSE
            /\ stdout_thread = 1
            /\ stderr_thread = 1
            /\ stdout_queue = <<[w |-> 1, idx |-> n, body |-> body]>>
            /\ stderr_tail = <<>>
            /\ last_mask = IF op = "reset" THEN Zeros(ACTION_DIM, FALSE)
                           ELSE DecodeMask(BodyRunning)
            /\ base_seed = DefaultSeed
            /\ episode_seed = 7
            /\ launcher = [pnpm |-> FALSE, loader |-> TRUE, node |-> TRUE]
            /\ procs = <<[NewWorker(BuildCmd(launcher)) EXCEPT
                            !.log = IF op = "reset" THEN <<Hello(7)>>
                                    ELSE <<Hello(7), StepCmd(0)>>,
                            !.nread = n, !.taken = n - 1]>>
            /\ readers = <<NewReaders(1)>>
            /\ pc = IF op = "reset" THEN "reset_read" ELSE "step_read"
            /\ ret = [Ret(op, "running") EXCEPT
                        !.after = IF op = "reset" THEN "none" ELSE "reset"]
            /\ rs = [attempt |-> 1, spawns |-> 1,
                     first |-> IF op = "reset" THEN "none" ELSE "live",
                     seed |-> 7, started |-> op = "step", prior |-> FALSE]
            /\ nops = n
            /\ ndiag = 0

NextNorm ==
    \/ ResetRecv
    \/ StepRecv

SpecNorm == InitNorm /\ [][NextNorm]_vars

(***************************************************************************)
(* The claims.  In C1 and C3 "the response" of the worker is the line that *)
(* _read_json hands to the operation; that this line answers the command   *)
(* just written is what C4 and C5 are about.                               *)
(***************************************************************************)
\* reset or step has returned normally
Returned == pc = "idle" /\ ret.op \in {"reset", "step"} /\ ret.err = "ok"

\* the caller calls step(a) in this step
StepCall(a) == pc = "idle" /\ nops' = nops + 1 /\ ret'.op = "step" /\ ret'.arg = a

OutOfRange(a) == a < 0 \/ a >= ACTION_DIM

\* the first worker spawned by the running / last reset call
FirstOfCall == Len(procs) - rs.spawns + 1

\* C1: within one reset call, a first response with done=true makes the bridge
\* close that worker, spawn exactly one more, send it hello with seed+1 and
\* return the second response's observation and mask whether or not that
\* response is terminal; a reset never spawns more than two workers (it never
\* even comes back to the spawn after the retry), and spawns exactly one when
\* the first response has done=false.
C1_OneRetry ==
    /\ rs.spawns <= 2
    /\ (pc = "reset_spawn" /\ rs.attempt = 2) => rs.spawns = 1
    /\ rs.first = "live" => rs.spawns = 1 /\ rs.attempt = 1
    /\ (rs.first = "done" /\ ret.op = "reset") =>
          /\ rs.attempt = 2
          /\ episode_seed = rs.seed + 1
          /\ ~procs[FirstOfCall].alive
          /\ procs[FirstOfCall].log = <<Hello(rs.seed)>>
          /\ (rs.spawns = 2 /\ pc # "reset_hello") =>
                \/ procs[Len(procs)].log = <<>>
                \/ procs[Len(procs)].log[1] = Hello(rs.seed + 1)
    /\ (pc = "idle" /\ ret.op = "reset" /\ ret.err = "ok") =>
          /\ ret.obs = DecodeObs(ret.msg)
          /\ ret.mask = DecodeMask(ret.msg)
          /\ last_mask = ret.mask
          /\ proc = Len(procs)
          /\ rs.first = "done" => rs.spawns = 2 /\ procs[proc].log = <<Hello(rs.seed + 1)>>

\* a reset returned after its retry, and the second response was terminal too
C1_Witness ==
    /\ pc = "idle" /\ ret.op = "reset" /\ ret.err = "ok"
    /\ rs.first = "done"
    /\ DecodeDone(ret.msg)
    /\ procs[proc].alive

\* C2 as claimed: in every bridge state, Closed included, step with an action
\* outside [0, ACTION_DIM) fails with InvalidAction, spawns no process and
\* writes nothing.
C2_Original ==
    [][\A a \in ActionArgs :
          (StepCall(a) /\ OutOfRange(a)) =>
              ret'.err = "InvalidAction" /\ procs' = procs]_vars

\* C2 as amended: step with an action outside [0, ACTION_DIM) fails with
\* InvalidAction whenever the bridge holds a worker, and with NotRunning when it
\* is Closed; in both cases it spawns no process, writes nothing and leaves the
\* bridge as it was.
C2_InvalidAction ==
    [][\A a \in ActionArgs :
          (StepCall(a) /\ OutOfRange(a)) =>
              /\ ret'.err = IF proc = 0 THEN "NotRunning" ELSE "InvalidAction"
              /\ pc' = "idle"
              /\ procs' = procs
              /\ UNCHANGED bridgeVars]_vars

\* step(ACTION_DIM) was refused while a live worker was held
C2_Witness ==
    /\ pc = "idle" /\ ret.op = "step" /\ ret.err = "InvalidAction"
    /\ ret.arg = ACTION_DIM
    /\ proc # 0 /\ procs[proc].alive

\* C3: when the response to a step has done=true, step returns terminated=true
\* and truncated=false, the worker is killed and the bridge is Closed; the
\* bridge leaves Closed only through reset, and every step called while Closed
\* fails with NotRunning and writes nothing.
C3_TerminatedThenNotRunning ==
    [][/\ (pc = "step_read" /\ pc' = "idle" /\ ret'.err = "ok"
              /\ DecodeDone(ret'.msg)) =>
             /\ ret'.terminated /\ ~ret'.truncated
             /\ proc' = 0
             /\ ~procs'[proc].alive
       /\ (pc = "step_read" /\ pc' = "idle" /\ ret'.err = "ok"
              /\ ~DecodeDone(ret'.msg)) =>
             ~ret'.terminated /\ ~ret'.truncated /\ proc' = proc
       /\ (proc = 0 /\ proc' # 0) => pc = "reset_spawn"
       /\ \A a \in ActionArgs :
             (StepCall(a) /\ proc = 0) =>
                 ret'.err = "NotRunning" /\ pc' = "idle" /\ procs' = procs]_vars

\* reset, a step answered with done=true, then a step that failed with NotRunning
C3_Witness ==
    /\ pc = "idle" /\ nops = 3
    /\ ret.op = "step" /\ ret.err = "NotRunning" /\ ret.after = "step"
    /\ Len(procs) = 1 /\ Len(procs[1].log) = 2 /\ procs[1].taken = 2

\* C4: a reset made after an earlier episode of the same bridge (an earlier
\* reset had returned normally) returns an observation and mask derived from
\* the new worker's response to its own hello, never from a line of an earlier
\* worker.
C4_FreshWorkerOnly ==
    (pc = "idle" /\ ret.op = "reset" /\ ret.err = "ok" /\ rs.prior) =>
        ret.src = [w |-> proc, idx |-> 1]

\* C5: the bridge never writes a command to a worker while the response to an
\* earlier command to that worker is unconsumed, and the line an operation takes
\* from the queue answers the command written last.
C5_OneInFlight ==
    /\ \A w \in Workers : Len(procs[w].log) - procs[w].taken <= 1
    /\ ret.src # NoTag => ret.src = ret.sent

\* the received obs sequence of the message an operation returned from
RawObs == MsgGet(ret.msg.obs, <<>>)
RawMask == MsgGet(ret.msg.mask, <<>>)

\* y is the 32-bit float nearest to the integer x (ties to the even mantissa)
IsFloat32Of(y, x) ==
    IF Abs(x) < Pow2(24) THEN y = x
    ELSE LET ulp == Pow2(Log2Floor(Abs(x)) - 23)
         IN  /\ y % ulp = 0
             /\ 2 * Abs(y - x) <= ulp
             /\ 2 * Abs(y - x) = ulp => (y \div ulp) % 2 = 0

\* C6 as claimed: the returned observation has OBS_DIM elements, the first
\* min(k, OBS_DIM) equal to the received ones in order, the rest zero.
C6_Original ==
    Returned =>
        /\ Len(ret.obs) = OBS_DIM
        /\ \A i \in 1..OBS_DIM :
              ret.obs[i] = IF i <= Min(Len(RawObs), OBS_DIM) THEN RawObs[i] ELSE 0

\* C6 as amended: the returned observation has OBS_DIM elements, the first
\* min(k, OBS_DIM) being the received ones in order, each converted to a 32-bit
\* float (so equal to it when a 32-bit float holds it, else the nearest one),
\* the rest zero.
C6_ObsNormalized ==
    Returned =>
        /\ Len(ret.obs) = OBS_DIM
        /\ \A i \in 1..OBS_DIM :
              IF i <= Min(Len(RawObs), OBS_DIM)
              THEN IsFloat32Of(ret.obs[i], RawObs[i])
              ELSE ret.obs[i] = 0

\* an observation longer than OBS_DIM was cut, and one element was rounded
C6_Witness ==
    /\ Returned
    /\ Len(RawObs) > OBS_DIM
    /\ \E i \in 1..OBS_DIM : ret.obs[i] # RawObs[i]

\* C7: the last-known mask has ACTION_DIM boolean elements in every state; after
\* a response with a mask of length k, it and the returned mask have element i
\* true exactly when i <= min(k, ACTION_DIM) and the received element i is
\* truthy (JSON true or a nonzero number).
C7_MaskNormalized ==
    /\ Len(last_mask) = ACTION_DIM
    /\ \A i \in 1..ACTION_DIM : last_mask[i] \in BOOLEAN
    /\ Returned =>
          /\ last_mask = ret.mask
          /\ \A i \in 1..ACTION_DIM :
                ret.mask[i] = (/\ i <= Min(Len(RawMask), ACTION_DIM)
                               /\ \/ RawMask[i] = JTrue
                                  \/ RawMask[i].t = "num" /\ RawMask[i].v # 0)

\* a mask longer than ACTION_DIM was cut, and a number counted as true
C7_Witness ==
    /\ Returned
    /\ Len(RawMask) > ACTION_DIM
    /\ \E i \in 1..ACTION_DIM : RawMask[i] = JNum(2) /\ ret.mask[i]
    /\ \E i \in 1..ACTION_DIM : RawMask[i] = JNum(0) /\ ~ret.mask[i]

\* the caller calls close() in this step
CloseCall == pc = "idle" /\ nops' = nops + 1 /\ ret'.op = "close"

\* C8: close() never raises; from any state it leaves the bridge Closed, no
\* worker alive and both stop events set; a close() right after a close()
\* changes nothing.
C8_CloseIdempotent ==
    [][CloseCall =>
          /\ ret'.err = "ok" /\ pc' = "idle"
          /\ proc' = 0
          /\ stdout_stop' /\ stderr_stop'
          /\ stdout_thread' = 0 /\ stderr_thread' = 0
          /\ \A w \in Workers : ~procs'[w].alive
          /\ ret.op = "close" => UNCHANGED <<bridgeVars, procs, readers>>]_vars

\* reset, close, close
C8_Witness ==
    /\ pc = "idle" /\ nops = 3
    /\ ret.op = "close" /\ ret.after = "close"
    /\ Len(procs) = 1 /\ procs[1].log # <<>>

\* C9: at most one worker of the bridge is alive, the one it holds; whenever
\* reset is about to spawn (first spawn, retry, or after a failed reset) the
\* bridge holds no worker and none is alive.
C9_AtMostOneAlive ==
    /\ \A w \in Workers : procs[w].alive => w = proc
    /\ pc = "reset_spawn" => proc = 0 /\ \A w \in Workers : ~procs[w].alive

\* a reset made right after a reset that had started an episode has spawned
\* its worker, the only one alive
C9_Witness ==
    /\ Len(procs) = 2 /\ procs[2].alive /\ proc = 2 /\ ~procs[1].alive
    /\ rs.prior /\ rs.spawns = 1
    /\ ret.op = "reset" /\ ret.after = "reset"

\* the caller reaches _write_json in this step
SendAttempt ==
    \/ pc = "reset_hello" /\ pc' # pc
    \/ /\ pc = "idle" /\ nops' = nops + 1
       /\ \/ ret'.op = "snapshot"
          \/ ret'.op = "step" /\ ~OutOfRange(ret'.arg)

\* a command line reached some worker's input in this step
Written == \E w \in Workers : Len(procs'[w].log) > Len(procs[w].log)

HoldsLive == proc # 0 /\ procs[proc].alive

\* C10 as claimed: a command is written only while the worker is alive; with no
\* live worker (never started, closed, or exited on its own) send fails with
\* NotRunning and writes nothing.
C10_Original ==
    [][/\ Written => HoldsLive
       /\ (SendAttempt /\ ~HoldsLive) =>
             ret'.err = "NotRunning" /\ procs' = procs]_vars

\* C10 as amended: a command is written only to the held worker and only while
\* it is alive; when the bridge holds no worker (never started, or closed) the
\* operation fails with NotRunning and writes nothing; when the held worker has
\* exited on its own, the write itself fails (WriteFailed) and writes nothing.
C10_SendOnlyWhileAlive ==
    [][/\ Written =>
             /\ HoldsLive
             /\ \A w \in Workers : w # proc => procs'[w].log = procs[w].log
       /\ (SendAttempt /\ HoldsLive) => Written
       /\ (SendAttempt /\ ~HoldsLive) =>
             /\ procs' = procs
             /\ pc' = "idle"
             /\ ret'.err = IF proc = 0 THEN "NotRunning" ELSE "WriteFailed"]_vars

\* a step was refused with WriteFailed: its worker had exited on its own
C10_Witness ==
    /\ pc = "idle" /\ ret.op = "step" /\ ret.err = "WriteFailed"
    /\ proc # 0 /\ ~procs[proc].alive

\* C11: once an operation has failed with WriteFailed the bridge is Closed, so
\* that step and snapshot fail with NotRunning until the next reset.
C11_WriteFailedCloses ==
    (pc = "idle" /\ ret.err = "WriteFailed") => proc = 0

\* the caller thread returns from _read_json in this step, with error e
RecvFails(e) ==
    /\ pc \in {"reset_read", "step_read", "snapshot_read"}
    /\ pc' = "idle"
    /\ ret'.err = e

\* C12: a receive of reset, step or snapshot that fails with Timeout or with
\* ProtocolError surfaces the error and kills nothing: no worker's liveness
\* changes, the bridge holds the same worker as before (it is not Closed) and
\* no stop event is set.
C12_RecvErrorKeepsWorker ==
    [][(RecvFails("Timeout") \/ RecvFails("ProtocolError")) =>
          /\ proc # 0 /\ proc' = proc
          /\ \A w \in Workers : procs'[w].alive = procs[w].alive
          /\ UNCHANGED <<stdout_stop, stderr_stop, stdout_thread, stderr_thread>>
          /\ ret'.op = ret.op]_vars

\* reset, a step, then a snapshot whose receive took a line that is not JSON:
\* the worker is still alive and held
C12_Witness ==
    /\ pc = "idle" /\ ret.op = "snapshot" /\ ret.err = "ProtocolError"
    /\ ret.after = "step" /\ nops = 3
    /\ proc # 0 /\ procs[proc].alive

\* C13: the diagnostic tail carried by a Timeout holds at most 120 lines, all
\* of them written by the worker the bridge holds, in the order that worker
\* wrote them.
C13_TimeoutTailOfCurrentWorker ==
    (pc = "idle" /\ ret.err = "Timeout") =>
        /\ Len(ret.tail) <= STDERR_TAIL_MAXLEN
        /\ \A i \in 1..Len(ret.tail) : ret.tail[i].w = proc
        /\ \A i, j \in 1..Len(ret.tail) : i < j => ret.tail[i].n < ret.tail[j].n

\* the caller thread takes a step of get_snapshot: the call with its checks
\* and write, or the return from _read_json
SnapshotStep ==
    \/ pc = "idle" /\ nops' = nops + 1 /\ ret'.op = "snapshot"
    \/ pc = "snapshot_read" /\ pc' = "idle"

\* C14: get_snapshot, whether it returns the snapshot or fails (NotRunning,
\* WriteFailed, Timeout, ProtocolError, SnapshotUnavailable), leaves the
\* episode state (the held worker, the stop events, the reader handles, the
\* episode seed), every worker's liveness and the last-known mask as they were.
C14_SnapshotReadOnly ==
    [][SnapshotStep =>
          /\ UNCHANGED <<proc, stdout_stop, stderr_stop, stdout_thread,
                         stderr_thread, last_mask, episode_seed, base_seed, rs>>
          /\ \A w \in Workers : procs'[w].alive = procs[w].alive
          /\ Len(procs') = Len(procs)
          /\ (pc = "idle" /\ proc = 0) => ret'.err = "NotRunning" /\ procs' = procs]_vars

\* a snapshot got a response without a mapping-valued snapshot field, whose
\* mask differs from the last-known mask; the worker is still held and alive
C14_Witness ==
    /\ pc = "idle" /\ ret.op = "snapshot" /\ ret.err = "SnapshotUnavailable"
    /\ proc # 0 /\ procs[proc].alive
    /\ DecodeMask(ret.msg) # last_mask

\* the held worker has exited without answering the command written last
CrashedUnanswered ==
    /\ proc # 0
    /\ ~procs[proc].alive
    /\ procs[proc].nread < Len(procs[proc].log)

\* C15: when the held worker has exited without answering the command the
\* bridge waits on, the pending receive ends in Timeout: it neither returns a
\* response nor fails with another error.
C15_CrashSurfacesAsTimeout ==
    [][(/\ pc \in {"reset_read", "step_read", "snapshot_read"}
        /\ pc' # pc
        /\ CrashedUnanswered) => ret'.err = "Timeout"]_vars

\* the same with nothing left over from earlier commands: every line the held
\* worker wrote before has been consumed and no line of another worker waits
NothingLeftOver ==
    /\ proc # 0
    /\ procs[proc].taken = procs[proc].nread
    /\ stdout_queue = <<>>
    /\ \A w \in Workers : procs[w].stdout = <<>>

C15_CleanCrashSurfacesAsTimeout ==
    [][(/\ pc \in {"reset_read", "step_read", "snapshot_read"}
        /\ pc' # pc
        /\ CrashedUnanswered
        /\ NothingLeftOver) => ret'.err = "Timeout"]_vars

\* C16: once a worker is gone (it exited, or close() killed it and raised the
\* stop signal), both readers started for it eventually terminate, also when
\* a new worker is started right after the kill.  Stated for the runs in
\* which the caller, from some point on, is between two operations: there the
\* bridge itself is at rest, and a reader still running runs for good.
C16_ReadersTerminate ==
    \A w \in 1..MaxWorkers :
        <>[](pc = "idle") =>
            [](( w \in Workers /\ ~procs[w].alive) =>
                  <>(/\ w \in Workers
                     /\ readers[w].out.pc = "exit"
                     /\ readers[w].err.pc = "exit"))

\* the commands written so far to worker w, none before it is spawned
LogOf(ps, w) == IF w <= Len(ps) THEN ps[w].log ELSE <<>>

\* the seed of the episode the running reset starts: the requested one, one
\* more on the retry
SeedOfAttempt == rs.seed + (rs.attempt - 1)

\* C17: the first command written to a worker is hello, written by _start to
\* the worker it has just spawned, with the episode seed (the requested seed,
\* seed+1 on the retry), mode, single_mode and seat; every later command is a
\* step or a snapshot, so a worker gets one hello and nothing before it.  A
\* worker is left without its hello only while _start is about to write it or
\* when it had exited before the write.
C17_HelloFirst ==
    [][\A w \in 1..Len(procs') :
          LET old == LogOf(procs, w)
              new == procs'[w].log
          IN  /\ new # old => new = Append(old, new[Len(new)])
              /\ (new # old /\ old = <<>>) =>
                    /\ pc = "reset_hello" /\ w = proc
                    /\ new = <<[cmd |-> "hello", seed |-> SeedOfAttempt,
                                mode |-> "single", single_mode |-> "normal",
                                seat |-> 0]>>
              /\ (new # old /\ old # <<>>) =>
                    /\ old[1].cmd = "hello"
                    /\ new[Len(new)].cmd \in {"step", "snapshot"}
              /\ (new = <<>> /\ procs'[w].alive) =>
                    w = proc' /\ pc' = "reset_hello"]_vars

\* a reset that retried: the first worker got hello with the requested seed,
\* the second hello with seed+1 and then a step
C17_Witness ==
    /\ Len(procs) = 2
    /\ procs[1].log = <<Hello(7)>>
    /\ procs[2].log = <<Hello(8), StepCmd(0)>>

\* the machine offers no way to start the worker: no pnpm, and not both the
\* tsx loader and node
Unlaunchable == ~launcher.pnpm /\ ~(launcher.loader /\ launcher.node)

\* the caller calls step or get_snapshot in this step
StepOrSnapshotCall ==
    pc = "idle" /\ nops' = nops + 1 /\ ret'.op \in {"step", "snapshot"}

\* C18: when _build_cmd finds no usable launcher, reset fails with
\* LaunchUnavailable without spawning a process or starting a reader; the
\* bridge is then Closed with no worker alive (reset had killed the one it
\* held), and a step or snapshot called next fails with NotRunning.
C18_LaunchUnavailable ==
    [][/\ (pc = "reset_spawn" /\ pc' # pc /\ Unlaunchable) =>
             /\ pc' = "idle" /\ ret'.op = "reset" /\ ret'.err = "LaunchUnavailable"
             /\ procs' = procs /\ readers' = readers
             /\ proc' = 0 /\ stdout_thread' = 0 /\ stderr_thread' = 0
             /\ \A w \in Workers : ~procs'[w].alive
       /\ (pc = "reset_spawn" /\ pc' # pc /\ ~Unlaunchable) =>
             ret'.err # "LaunchUnavailable" /\ Len(procs') = Len(procs) + 1
       /\ (StepOrSnapshotCall /\ ret.err = "LaunchUnavailable") =>
             ret'.err = "NotRunning" /\ procs' = procs /\ pc' = "idle"]_vars

\* a reset had started a worker, the launcher went away, the next reset failed
\* with LaunchUnavailable after killing that worker, and the step after it
\* failed with NotRunning
C18_Witness ==
    /\ pc = "idle" /\ nops = 3
    /\ ret.op = "step" /\ ret.err = "NotRunning" /\ ret.after = "reset"
    /\ Unlaunchable
    /\ Len(procs) = 1 /\ procs[1].log # <<>> /\ ~procs[1].alive
    /\ rs.prior /\ rs.spawns = 0

\* C19: a reader thread reads only the streams of the worker it was started
\* for, so each stream of the held worker has one reader; and once a later
\* worker is held, no line of an earlier worker is added to the queue.
C19_OneReaderPerStream ==
    [][/\ \A w \in 1..Len(readers') :
             /\ readers'[w].out.pc = "read" => readers'[w].out.tgt = w
             /\ readers'[w].err.pc = "read" => readers'[w].err.tgt = w
       /\ (Len(stdout_queue') > Len(stdout_queue) /\ proc # 0) =>
             stdout_queue'[Len(stdout_queue')].w = proc]_vars

\* the caller thread is about to return from _read_json with a line that
\* parses as JSON, inside reset or step
DecodesNow ==
    /\ pc \in {"reset_read", "step_read"}
    /\ stdout_queue # <<>>
    /\ Head(stdout_queue).body.json

=============================================================================
